---- MODULE Spec2Model ----
(***************************************************************************)
(* A model of ssq_gui_v3.py: the statistics analyzer (SSQCore), the        *)
(* recommendation engine (RecommendEngine), the thread message queue       *)
(* (MessageQueue) and the dispatch / poll protocol of the window (SSQGUI). *)
(*                                                                         *)
(* Encodings.                                                              *)
(*   - A text field of a draw record ("01,05,12") is the sequence of its   *)
(*     comma separated tokens; a token that int() accepts is <<n>>, one it *)
(*     rejects is <<>>.  The empty string is the empty sequence of tokens. *)
(*   - A frequency table (a dict) is the sequence of its <<number, count>> *)
(*     items in insertion order, which is the order dict.items() yields.   *)
(*   - A raised exception is recorded in the position variable (epc, or a  *)
(*     worker's pc), never as a value.                                     *)
(***************************************************************************)
EXTENDS Integers, Sequences, FiniteSets, TLC

VARIABLES
    \* ---- the recommendation engine, as called by the generate worker
    history,          \* the cached record list handed to parse_numbers
    algorithm,        \* the RecommendAlgorithm key
    count,            \* the requested number of recommendations
    red_freq,         \* analyze_frequency's red table
    blue_freq,        \* analyze_frequency's blue table
    recommendations,  \* the list a strategy is building / has returned
    selected_reds,    \* the strategy's current candidate red list
    epc,              \* "analyze" | "call" | "fill" | "returned" | "raised"
    first_result,     \* the outcome of the previous call on the same tables
    red_balls,        \* the worker's red list, parse_numbers' first result
    blue_balls,       \* the worker's blue list, parse_numbers' second result
    returned_tables,  \* the tables an earlier analyze_frequency call returned
    \* ---- the message queue
    queue,            \* MessageQueue.queue, head first
    last_received,    \* what the latest receive() returned
    sent_log,         \* every message handed to send, in send order
    recv_log,         \* every message returned by receive, in order
    cleared_log,      \* every message removed by clear, in order
    \* ---- the window and its worker threads
    ui_busy,          \* btn_fetch / btn_recommend / algo_combo are disabled
    progress_on,      \* the progress bar is running
    closed,           \* on_closing has destroyed the root window
    cache,            \* the cache file: "none" or the name of a record list
    threads,          \* the worker threads started so far, by task number
    status_var,       \* the status line
    result_text,      \* the result text box: the task whose result it shows
    consumed,         \* terminal messages process_messages has handled
    chart             \* the frequency tab: the outcome of the latest request

engine_vars == <<history, algorithm, count, red_freq, blue_freq,
                 recommendations, selected_reds, epc, first_result,
                 red_balls, blue_balls, returned_tables>>
queue_vars  == <<queue, last_received, sent_log, recv_log, cleared_log>>
gui_vars    == <<ui_busy, progress_on, closed, cache, threads, status_var,
                 result_text, consumed, chart>>
vars        == <<engine_vars, queue_vars, gui_vars>>

(***************************************************************************)
(* Bounds of the model.                                                    *)
(***************************************************************************)
MaxRecords == 2      \* records in the cached history
MaxCount   == 1      \* requested recommendations, for the random strategies
RandWidth  == 8      \* how many red numbers the random source may yield
BlueWidth  == 2      \* how many blue numbers the random source may yield
MaxSends   == 2      \* messages each producer of the queue sends
MaxTasks   == 2      \* dispatches the window accepts

(***************************************************************************)
(* Program constants.                                                      *)
(***************************************************************************)
\* RecommendEngine.generate(algorithm, red_freq, blue_freq, count=5): the
\* worker passes no count.
default_count == 5
all_reds  == 1..33
all_blues == 1..16

(***************************************************************************)
(* Generic list helpers (Python list semantics).                           *)
(***************************************************************************)
SeqToSet(s) == {s[i] : i \in 1..Len(s)}

Take(s, n) == SubSeq(s, 1, IF Len(s) < n THEN Len(s) ELSE n)

RECURSIVE SumSeq(_)
SumSeq(s) == IF s = <<>> THEN 0 ELSE Head(s) + SumSeq(Tail(s))

\* sorted(list_of_ints): ascending, duplicates kept.
RECURSIVE InsertNum(_, _)
InsertNum(s, x) ==
    IF s = <<>> THEN <<x>>
    ELSE IF Head(s) <= x THEN <<Head(s)>> \o InsertNum(Tail(s), x)
    ELSE <<x>> \o s

RECURSIVE sorted(_)
sorted(s) == IF s = <<>> THEN <<>>
             ELSE InsertNum(sorted(SubSeq(s, 1, Len(s) - 1)), s[Len(s)])

\* sorted(a_set_of_ints)
RECURSIVE sorted_set(_)
sorted_set(S) == IF S = {} THEN <<>>
                 ELSE LET m == CHOOSE x \in S : \A y \in S : x <= y
                      IN <<m>> \o sorted_set(S \ {m})

\* sorted(items, key=lambda x: x[1], reverse=r): Python's sort is stable, and
\* reverse=True keeps the original order of items with equal keys.
RECURSIVE InsertItem(_, _, _)
InsertItem(s, x, reverse) ==
    IF s = <<>> THEN <<x>>
    ELSE IF (IF reverse THEN Head(s)[2] >= x[2] ELSE Head(s)[2] <= x[2])
         THEN <<Head(s)>> \o InsertItem(Tail(s), x, reverse)
         ELSE <<x>> \o s

RECURSIVE sorted_by_count(_, _)
sorted_by_count(items, reverse) ==
    IF items = <<>> THEN <<>>
    ELSE InsertItem(sorted_by_count(SubSeq(items, 1, Len(items) - 1), reverse),
                    items[Len(items)], reverse)

Keys(freq) == [i \in 1..Len(freq) |-> freq[i][1]]

\* A faulty dict.get that answers 0 for a missing key, whatever the default.
\* C14 must fail on it.
Get_missing_is_zero(freq, num, default) ==
    IF \E i \in 1..Len(freq) : freq[i][1] = num
    THEN (CHOOSE it \in {freq[i] : i \in 1..Len(freq)} : it[1] = num)[2]
    ELSE 0

\* dict.get(num, default)
Get(freq, num, default) ==
    IF \E i \in 1..Len(freq) : freq[i][1] = num
    THEN (CHOOSE it \in SeqToSet(freq) : it[1] = num)[2]
    ELSE default

(***************************************************************************)
(* SSQCore.parse_numbers and SSQCore.analyze_frequency.                    *)
(***************************************************************************)
IsInt(tok) == tok # <<>>

\* A faulty decoder that lacks the len(nums) == 6 test.  C20 must fail on it.
RedOf_any_length(item) ==
    IF /\ item.red # <<>>
       /\ \A i \in 1..Len(item.red) : IsInt(item.red[i])
    THEN [i \in 1..Len(item.red) |-> item.red[i][1]]
    ELSE <<>>

\* [int(x) for x in item['red'].split(',')] when every token converts and
\* there are exactly six of them; otherwise the record adds no red ball.
RedOf(item) ==
    IF /\ item.red # <<>>
       /\ \A i \in 1..Len(item.red) : IsInt(item.red[i])
       /\ Len(item.red) = 6
    THEN [i \in 1..6 |-> item.red[i][1]]
    ELSE <<>>

\* int(item['blue']) when the field is non-empty and converts.
BlueOf(item) ==
    IF item.blue # <<>> /\ Len(item.blue) = 1 /\ IsInt(item.blue[1])
    THEN <<item.blue[1][1]>>
    ELSE <<>>

RECURSIVE parse_numbers(_)
parse_numbers(data) ==
    IF data = <<>> THEN <<<<>>, <<>>>>
    ELSE LET rest == parse_numbers(SubSeq(data, 1, Len(data) - 1))
             item == data[Len(data)]
         IN <<rest[1] \o RedOf(item), rest[2] \o BlueOf(item)>>

\* freq[num] += 1 on a defaultdict(int): a new key is appended.
Inc(freq, num) ==
    IF \E i \in 1..Len(freq) : freq[i][1] = num
    THEN [i \in 1..Len(freq) |->
            IF freq[i][1] = num THEN <<num, freq[i][2] + 1>> ELSE freq[i]]
    ELSE Append(freq, <<num, 1>>)

RECURSIVE CountInto(_, _)
CountInto(balls, domain) ==
    IF balls = <<>> THEN <<>>
    ELSE LET rest == CountInto(SubSeq(balls, 1, Len(balls) - 1), domain)
             num  == balls[Len(balls)]
         IN IF num \in domain THEN Inc(rest, num) ELSE rest

\* A faulty analyze_frequency that keeps counting in the tables of the
\* previous call instead of two new defaultdict(int).  C21 must fail on it.
RECURSIVE CountOnto(_, _, _)
CountOnto(freq, balls, domain) ==
    IF balls = <<>> THEN freq
    ELSE LET rest == CountOnto(freq, SubSeq(balls, 1, Len(balls) - 1), domain)
             num  == balls[Len(balls)]
         IN IF num \in domain THEN Inc(rest, num) ELSE rest

analyze_frequency_shared_tables(reds, blues) ==
    <<CountOnto(red_freq, reds, all_reds),
      CountOnto(blue_freq, blues, all_blues)>>

analyze_frequency(reds, blues) ==
    <<CountInto(reds, all_reds), CountInto(blues, all_blues)>>

(***************************************************************************)
(* The cached histories the engine is run on.  Each record holds the two   *)
(* text fields save_data_to_cache keeps ('red', 'blue').                   *)
(***************************************************************************)
Field(nums) == [i \in 1..Len(nums) |-> <<nums[i]>>]

RecA      == [red |-> Field(<<3, 20, 22, 31, 32, 33>>),  blue |-> Field(<<12>>)]
RecB      == [red |-> Field(<<1, 20, 22, 31, 32, 33>>),  blue |-> Field(<<3>>)]
RecC      == [red |-> Field(<<2, 9, 11, 13, 28, 30>>),   blue |-> Field(<<3>>)]
RecNoBlue == [red |-> Field(<<1, 2, 3, 20, 22, 31>>),    blue |-> <<>>]
RecShort  == [red |-> Field(<<4, 5, 6, 7, 8>>),          blue |-> Field(<<16>>)]
RecJunk   == [red |-> <<<<1>>, <<2>>, <<>>, <<4>>, <<5>>, <<6>>>>,
              blue |-> <<<<>>>>]
RecRange  == [red |-> Field(<<0, 3, 33, 34, 3, 40>>),    blue |-> Field(<<17>>)]

RecordPool == {RecA, RecB, RecC, RecNoBlue, RecShort, RecJunk, RecRange}

RECURSIVE SeqsUpTo(_, _)
SeqsUpTo(S, n) ==
    IF n = 0 THEN {<<>>}
    ELSE LET shorter == SeqsUpTo(S, n - 1)
         IN shorter \cup {Append(s, x) : s \in shorter, x \in S}

\* load_cached_data hands the worker a non-empty record list.
Histories == SeqsUpTo(RecordPool, MaxRecords) \ {<<>>}

(***************************************************************************)
(* The random source.  Every outcome random.sample / random.choices /      *)
(* random.randint can produce is a possible outcome here, restricted to    *)
(* the first RandWidth numbers of RedDraws (BlueWidth of BlueDraws) when   *)
(* the population holds enough of them.                                    *)
(***************************************************************************)
RedDraws  == <<1, 2, 3, 20, 22, 31, 32, 33, 17, 9, 28, 12>>
BlueDraws == <<3, 12, 16, 1, 8, 9>>

RedPool  == {RedDraws[i] : i \in 1..RandWidth}
BluePool == {BlueDraws[i] : i \in 1..BlueWidth}

Drawn(population, pool, k) ==
    IF Cardinality(population \cap pool) >= k THEN population \cap pool
    ELSE population

\* random.sample(population, k): the k-subsets; none (ValueError) when the
\* population is smaller than k.  Every caller sorts the sample.
random_sample(population, k) ==
    {S \in SUBSET Drawn(population, RedPool, k) : Cardinality(S) = k}

\* random.randint(a, b)
random_randint(a, b, pool) == Drawn(a..b, pool, 1)

\* set(random.choices(population, weights, k)): the non-empty sets of at most
\* k numbers of positive weight.
random_choices(population, weights, k) ==
    LET support == {n \in population : weights[n] > 0}
    IN {S \in SUBSET Drawn(support, RedPool, k) :
            Cardinality(S) >= 1 /\ Cardinality(S) <= k}

Rec(reds, blue) == [red |-> reds, blue |-> blue]

(***************************************************************************)
(* RecommendEngine.  Each strategy is the action of one pass through its   *)
(* `for _ in range(count)` loop (for _pure_frequency, which computes its   *)
(* answer before the loop, of the whole call); with the loop exhausted the *)
(* action returns the list.  An exception leaves the call in "raised".     *)
(***************************************************************************)
engine_frame == UNCHANGED <<history, algorithm, count, red_freq, blue_freq,
                            first_result, red_balls, blue_balls,
                            returned_tables, queue_vars, gui_vars>>

Return ==
    /\ epc' = "returned"
    /\ UNCHANGED <<recommendations, selected_reds>>

Raise ==
    /\ epc' = "raised"
    /\ UNCHANGED <<recommendations, selected_reds>>

\* recommendations.append({'red': selected_reds, 'blue': selected_blue})
AppendRec(reds, blues) ==
    \E blue \in blues :
        /\ recommendations' = Append(recommendations, Rec(reds, blue))
        /\ selected_reds' = reds
        /\ epc' = "call"

RedWeight(num) == 10 * Get(red_freq, num, 1) + 1   \* tenths; jitter >= 0.1
BlueWeight(num) == Get(blue_freq, num, 1)

WeightedBlues ==
    LET blue_weights == [num \in all_blues |-> BlueWeight(num)]
    IN Drawn({n \in all_blues : blue_weights[n] > 0}, BluePool, 1)

_frequency_weighted ==
    IF epc = "fill"
    THEN \* while len(selected_reds) < 6: candidate = random.randint(1, 33)
         \E candidate \in random_randint(1, 33, RedPool) :
            LET reds == IF candidate \in SeqToSet(selected_reds)
                        THEN selected_reds
                        ELSE sorted(Take(Append(selected_reds, candidate), 6))
            IN IF Len(reds) < 6
               THEN /\ selected_reds' = reds
                    /\ UNCHANGED <<recommendations, epc>>
               ELSE AppendRec(reds, WeightedBlues)
    ELSE IF Len(recommendations) >= count THEN Return
    ELSE \E chosen \in random_choices(all_reds,
                            [num \in all_reds |-> RedWeight(num)], 6) :
            LET reds == sorted(Take(sorted_set(chosen), 6))
            IN IF Len(reds) < 6
               THEN /\ selected_reds' = reds
                    /\ epc' = "fill"
                    /\ UNCHANGED recommendations
               ELSE AppendRec(reds, WeightedBlues)

_pure_random ==
    IF Len(recommendations) >= count THEN Return
    ELSE \E reds \in random_sample(all_reds, 6) :
            AppendRec(sorted_set(reds), random_randint(1, 16, BluePool))

\* top_reds: the first six items of the stable descending sort, then sorted
\* by number; top_blue: the first item's number (IndexError on an empty table).
top_reds(freq) == sorted(Keys(Take(sorted_by_count(freq, TRUE), 6)))

\* A faulty _pure_frequency that draws the blue number from the random source
\* for every recommendation, as the random strategies do.  C9 must fail on it.
_pure_frequency_drawn_blue ==
    IF blue_freq = <<>> THEN Raise
    ELSE /\ recommendations' \in
               [1..count -> {Rec(top_reds(red_freq), blue) :
                                blue \in random_randint(1, 16, BluePool)}]
         /\ selected_reds' = top_reds(red_freq)
         /\ epc' = "returned"

_pure_frequency ==
    IF blue_freq = <<>> THEN Raise
    ELSE LET top_blue == sorted_by_count(blue_freq, TRUE)[1][1]
         IN /\ recommendations' =
                  [i \in 1..count |-> Rec(top_reds(red_freq), top_blue)]
            /\ selected_reds' = top_reds(red_freq)
            /\ epc' = "returned"

_hot_cold_balance ==
    IF Len(recommendations) >= count THEN Return
    ELSE LET hot  == SeqToSet(Keys(Take(sorted_by_count(red_freq, TRUE), 10)))
             cold == SeqToSet(Keys(Take(sorted_by_count(red_freq, FALSE), 10)))
         IN IF random_sample(hot, 3) = {} \/ blue_freq = <<>> THEN Raise
            ELSE \E hot_selected \in random_sample(hot, 3),
                    cold_selected \in random_sample(cold, 3) :
                    LET hot_blue  == sorted_by_count(blue_freq, TRUE)[1][1]
                        cold_blue == sorted_by_count(blue_freq, FALSE)[1][1]
                    IN AppendRec(sorted(sorted_set(hot_selected)
                                        \o sorted_set(cold_selected)),
                                 {hot_blue, cold_blue})

\* A faulty _interval_distribution that draws four numbers from 12..33 at
\* once instead of two from each upper interval.  C12 must fail on it.
_interval_distribution_upper_four ==
    IF Len(recommendations) >= count THEN Return
    ELSE \E interval1 \in random_sample(1..11, 2),
            upper \in random_sample(12..33, 4) :
            AppendRec(sorted_set(interval1 \cup upper),
                      random_randint(1, 8, BluePool)
                          \cup random_randint(9, 16, BluePool))

_interval_distribution ==
    IF Len(recommendations) >= count THEN Return
    ELSE \E interval1 \in random_sample(1..11, 2),
            interval2 \in random_sample(12..22, 2),
            interval3 \in random_sample(23..33, 2) :
            AppendRec(sorted_set(interval1 \cup interval2 \cup interval3),
                      random_randint(1, 8, BluePool)
                          \cup random_randint(9, 16, BluePool))

\* A faulty _odd_even_balance that draws its second three from every number
\* left, odd or even.  C13 must fail on it.
_odd_even_balance_any_second ==
    IF Len(recommendations) >= count THEN Return
    ELSE \E odds \in random_sample({x \in all_reds : x % 2 = 1}, 3) :
            \E evens \in random_sample(all_reds \ odds, 3) :
                AppendRec(sorted_set(odds \cup evens),
                          random_randint(1, 16, BluePool))

_odd_even_balance ==
    IF Len(recommendations) >= count THEN Return
    ELSE \E odds  \in random_sample({x \in all_reds : x % 2 = 1}, 3),
            evens \in random_sample({x \in all_reds : x % 2 = 0}, 3) :
            AppendRec(sorted_set(odds \cup evens),
                      random_randint(1, 16, BluePool))

\* A faulty _sum_optimized whose test is only `sum_value <= 140`.  C10 must
\* fail on it.
_sum_optimized_no_lower_bound ==
    IF Len(recommendations) >= count THEN Return
    ELSE \E sample \in random_sample(all_reds, 6) :
            LET reds == sorted_set(sample)
                sum_value == SumSeq(reds)
            IN IF sum_value <= 140
               THEN AppendRec(reds, random_randint(1, 16, BluePool))
               ELSE /\ selected_reds' = reds
                    /\ UNCHANGED <<recommendations, epc>>

\* while True: sample; if 80 <= sum <= 140: break.  A rejected sample stays
\* in selected_reds and the loop draws again.
_sum_optimized ==
    IF Len(recommendations) >= count THEN Return
    ELSE \E sample \in random_sample(all_reds, 6) :
            LET reds == sorted_set(sample)
                sum_value == SumSeq(reds)
            IN IF 80 <= sum_value /\ sum_value <= 140
               THEN AppendRec(reds, random_randint(1, 16, BluePool))
               ELSE /\ selected_reds' = reds
                    /\ UNCHANGED <<recommendations, epc>>

\* A faulty has_consecutive that looks at the first pair only.  C11 must fail
\* on it.
has_consecutive_first_pair(reds) == reds[2] - reds[1] = 1

has_consecutive(reds) ==
    \E i \in 1..(Len(reds) - 1) : reds[i + 1] - reds[i] = 1

_no_consecutive ==
    IF Len(recommendations) >= count THEN Return
    ELSE \E sample \in random_sample(all_reds, 6) :
            LET reds == sorted_set(sample)
            IN IF ~has_consecutive(reds)
               THEN AppendRec(reds, random_randint(1, 16, BluePool))
               ELSE /\ selected_reds' = reds
                    /\ UNCHANGED <<recommendations, epc>>

Algorithms == {"frequency_weighted", "pure_random", "pure_frequency",
               "hot_cold_balance", "interval_distribution",
               "odd_even_balance", "sum_optimized", "no_consecutive"}

\* The if / elif chain of RecommendEngine.generate.
Dispatch ==
    IF algorithm = "frequency_weighted" THEN _frequency_weighted
    ELSE IF algorithm = "pure_random" THEN _pure_random
    ELSE IF algorithm = "pure_frequency" THEN _pure_frequency
    ELSE IF algorithm = "hot_cold_balance" THEN _hot_cold_balance
    ELSE IF algorithm = "interval_distribution" THEN _interval_distribution
    ELSE IF algorithm = "odd_even_balance" THEN _odd_even_balance
    ELSE IF algorithm = "sum_optimized" THEN _sum_optimized
    ELSE IF algorithm = "no_consecutive" THEN _no_consecutive
    ELSE _frequency_weighted

generate ==
    /\ epc \in {"call", "fill"}
    /\ Dispatch
    /\ engine_frame

\* The head of _generate_recommend_worker: parse the cached records and
\* build the two tables, then call the engine.
worker_analyze ==
    /\ epc = "analyze"
    /\ LET balls == parse_numbers(history)
           freqs == analyze_frequency(balls[1], balls[2])
       IN /\ red_balls' = balls[1]
          /\ blue_balls' = balls[2]
          /\ red_freq' = freqs[1]
          /\ blue_freq' = freqs[2]
    /\ epc' = "call"
    /\ UNCHANGED <<history, algorithm, count, recommendations, selected_reds,
                   first_result, returned_tables, queue_vars, gui_vars>>

\* A second run of the worker on the same cache and the same strategy.
call_again ==
    /\ epc \in {"returned", "raised"}
    /\ first_result = <<>>
    /\ first_result' = <<[outcome |-> epc, value |-> recommendations]>>
    /\ recommendations' = <<>>
    /\ selected_reds' = <<>>
    /\ epc' = "analyze"
    /\ UNCHANGED <<history, algorithm, count, red_freq, blue_freq,
                   red_balls, blue_balls, returned_tables,
                   queue_vars, gui_vars>>

\* A later run of the worker after a fetch has replaced the cache, while the
\* caller of the earlier run still holds the tables it was given.
analyze_again ==
    /\ epc \in {"returned", "raised"}
    /\ returned_tables = <<>>
    /\ returned_tables' = <<<<red_freq, blue_freq>>>>
    /\ history' \in Histories
    /\ recommendations' = <<>>
    /\ selected_reds' = <<>>
    /\ epc' = "analyze"
    /\ UNCHANGED <<algorithm, count, red_freq, blue_freq, first_result,
                   red_balls, blue_balls, queue_vars, gui_vars>>

(***************************************************************************)
(* Initial states.                                                         *)
(***************************************************************************)
QueueIdle ==
    /\ queue = <<>>
    /\ last_received = <<>>
    /\ sent_log = <<>>
    /\ recv_log = <<>>
    /\ cleared_log = <<>>

GuiIdle ==
    /\ ui_busy = FALSE
    /\ progress_on = FALSE
    /\ closed = FALSE
    /\ cache = "none"
    /\ threads = <<>>
    /\ status_var = "init"
    /\ result_text = 0
    /\ consumed = <<>>
    /\ chart = "none"

EngineIdle ==
    /\ history = <<>>
    /\ algorithm = "frequency_weighted"
    /\ count = default_count
    /\ red_freq = <<>>
    /\ blue_freq = <<>>
    /\ recommendations = <<>>
    /\ selected_reds = <<>>
    /\ epc = "idle"
    /\ first_result = <<>>
    /\ red_balls = <<>>
    /\ blue_balls = <<>>
    /\ returned_tables = <<>>

EngineInit(histories, algorithms, counts) ==
    /\ history \in histories
    /\ algorithm \in algorithms
    /\ count \in counts
    /\ red_freq = <<>>
    /\ blue_freq = <<>>
    /\ recommendations = <<>>
    /\ selected_reds = <<>>
    /\ epc = "analyze"
    /\ first_result = <<>>
    /\ red_balls = <<>>
    /\ blue_balls = <<>>
    /\ returned_tables = <<>>
    /\ QueueIdle
    /\ GuiIdle

(***************************************************************************)
(* SpecEngine: one worker run of every strategy on every cached history.   *)
(***************************************************************************)
InitEngine == EngineInit(Histories, Algorithms, 1..MaxCount)
NextEngine == worker_analyze \/ generate
SpecEngine == InitEngine /\ [][NextEngine]_vars

(***************************************************************************)
(* SpecPureFrequency: the worker run twice on the same cache with the      *)
(* pure-frequency strategy.                                                *)
(***************************************************************************)
InitPureFrequency ==
    EngineInit(Histories, {"pure_frequency"},
               (1..(MaxCount + 1)) \cup {default_count})
NextPureFrequency == worker_analyze \/ generate \/ call_again
SpecPureFrequency == InitPureFrequency /\ [][NextPureFrequency]_vars

(***************************************************************************)
(* SpecSumOptimized: one worker run of the sum-optimized strategy.  The    *)
(* strategy reads neither table, so two cached histories stand for all.    *)
(***************************************************************************)
InitSumOptimized ==
    EngineInit({<<RecA>>, <<RecJunk>>}, {"sum_optimized"}, 1..MaxCount)
SpecSumOptimized == InitSumOptimized /\ [][NextEngine]_vars

(***************************************************************************)
(* One worker run of a strategy that reads neither table, on each cache of *)
(* a single record.                                                        *)
(***************************************************************************)
SingleRecordHistories == {<<r>> : r \in RecordPool}

InitNoConsecutive ==
    EngineInit(SingleRecordHistories, {"no_consecutive"}, 1..MaxCount)
SpecNoConsecutive == InitNoConsecutive /\ [][NextEngine]_vars

InitIntervalDistribution ==
    EngineInit(SingleRecordHistories, {"interval_distribution"}, 1..MaxCount)
SpecIntervalDistribution == InitIntervalDistribution /\ [][NextEngine]_vars

InitOddEvenBalance ==
    EngineInit(SingleRecordHistories, {"odd_even_balance"}, 1..MaxCount)
SpecOddEvenBalance == InitOddEvenBalance /\ [][NextEngine]_vars

(***************************************************************************)
(* SpecFrequencyWeighted: one worker run of the weighted strategy on a     *)
(* cache none of whose records parses, so that both tables are empty.      *)
(***************************************************************************)
InitFrequencyWeighted ==
    EngineInit(SeqsUpTo({RecJunk}, MaxRecords) \ {<<>>},
               {"frequency_weighted"}, 1..MaxCount)
SpecFrequencyWeighted == InitFrequencyWeighted /\ [][NextEngine]_vars

(***************************************************************************)
(* SpecRejectSampling: one worker run of each reject-sampling strategy.    *)
(* The worker thread, once started, keeps running: WF_vars(generate).      *)
(***************************************************************************)
InitRejectSampling ==
    EngineInit(SingleRecordHistories, {"sum_optimized", "no_consecutive"},
               1..MaxCount)
SpecRejectSampling ==
    InitRejectSampling /\ [][NextEngine]_vars /\ WF_vars(generate)

(***************************************************************************)
(* SpecParse: the worker run on every record list of up to MaxRecords + 1  *)
(* records, so that a record can stand between two others.                 *)
(***************************************************************************)
InitParse ==
    EngineInit(SeqsUpTo(RecordPool, MaxRecords + 1) \ {<<>>},
               {"pure_frequency"}, {1})
SpecParse == InitParse /\ [][NextEngine]_vars

(***************************************************************************)
(* SpecAnalyze: the worker run on one cached history and, after a fetch    *)
(* has replaced the cache, on another.                                     *)
(***************************************************************************)
InitAnalyze == EngineInit(Histories, {"pure_frequency"}, {1})
NextAnalyze == worker_analyze \/ generate \/ analyze_again
SpecAnalyze == InitAnalyze /\ [][NextAnalyze]_vars

(***************************************************************************)
Distinct(s) == \A i, j \in 1..Len(s) : i # j => s[i] # s[j]

ValidRecommendation(rec) ==
    /\ Len(rec.red) = 6
    /\ Distinct(rec.red)
    /\ \A i \in 1..Len(rec.red) : rec.red[i] \in all_reds
    /\ rec.blue \in all_blues

\* C1: for every strategy, every pair of tables analyze_frequency can produce
\* and every count, each recommendation generate returns has exactly 6
\* pairwise distinct reds in [1,33] and one blue in [1,16].
C1_EveryRecommendationValid ==
    epc = "returned" =>
        \A i \in 1..Len(recommendations) :
            ValidRecommendation(recommendations[i])

\* The numbers of `domain` ordered by descending count, ties by ascending
\* number: the first n of them.
RECURSIVE TopByCountThenNumber(_, _, _)
TopByCountThenNumber(freq, domain, n) ==
    IF n = 0 \/ domain = {} THEN {}
    ELSE LET best == CHOOSE x \in domain : \A y \in domain :
                         \/ Get(freq, x, 0) > Get(freq, y, 0)
                         \/ Get(freq, x, 0) = Get(freq, y, 0) /\ x <= y
         IN {best} \cup TopByCountThenNumber(freq, domain \ {best}, n - 1)

\* C8: the pure-frequency strategy returns the 6 numbers of highest frequency,
\* ties broken by ascending number whatever the order of first appearance,
\* and the blue of highest frequency.  Stated for the tables that hold at
\* least six red numbers and a blue number, where the strategy returns six
\* reds.
C8_TopSixTiesAscending ==
    (algorithm = "pure_frequency" /\ epc = "returned" /\ Len(red_freq) >= 6) =>
        \A i \in 1..Len(recommendations) :
            /\ SeqToSet(recommendations[i].red) =
                   TopByCountThenNumber(red_freq, all_reds, 6)
            /\ \A n \in all_blues :
                   Get(blue_freq, recommendations[i].blue, 0)
                       >= Get(blue_freq, n, 0)

C10_SumInRange ==
    algorithm = "sum_optimized" =>
        \A i \in 1..Len(recommendations) :
            /\ 80 <= SumSeq(recommendations[i].red)
            /\ SumSeq(recommendations[i].red) <= 140

\* Reached: the call has returned a recommendation whose sum is on the edge of
\* the interval.
C10_Witness ==
    /\ algorithm = "sum_optimized"
    /\ epc = "returned"
    /\ Len(recommendations) = count
    /\ \E i \in 1..Len(recommendations) :
           SumSeq(recommendations[i].red) \in {80, 140}

\* C11: in every recommendation of the no-consecutive strategy no two
\* neighbours of the sorted red list differ by exactly 1, whatever the random
\* source yields.
C11_NoAdjacentReds ==
    algorithm = "no_consecutive" =>
        \A i \in 1..Len(recommendations) :
            LET red == recommendations[i].red
            IN /\ \A k \in 1..(Len(red) - 1) : red[k] < red[k + 1]
               /\ \A a, b \in SeqToSet(red) : a - b # 1

\* Reached: the call has returned its recommendations, one of them with two
\* reds that differ by 2.
C11_Witness ==
    /\ algorithm = "no_consecutive"
    /\ epc = "returned"
    /\ Len(recommendations) = count
    /\ \E i \in 1..Len(recommendations) :
           \E a, b \in SeqToSet(recommendations[i].red) : a - b = 2

RedsIn(rec, S) == Cardinality(SeqToSet(rec.red) \cap S)

\* C12: every recommendation of the interval-distribution strategy has
\* exactly 2 reds in [1,11], 2 in [12,22] and 2 in [23,33], six in all, and a
\* blue in [1,8] or [9,16].
C12_TwoRedsPerInterval ==
    algorithm = "interval_distribution" =>
        \A i \in 1..Len(recommendations) :
            /\ Len(recommendations[i].red) = 6
            /\ RedsIn(recommendations[i], 1..11) = 2
            /\ RedsIn(recommendations[i], 12..22) = 2
            /\ RedsIn(recommendations[i], 23..33) = 2
            /\ recommendations[i].blue \in (1..8) \cup (9..16)

\* Reached: the call has returned a recommendation that holds 22, the last
\* number of the middle interval, and a blue of the upper half.
C12_Witness ==
    /\ algorithm = "interval_distribution"
    /\ epc = "returned"
    /\ Len(recommendations) = count
    /\ \E i \in 1..Len(recommendations) :
           /\ 22 \in SeqToSet(recommendations[i].red)
           /\ recommendations[i].blue \in 9..16

\* C13: every recommendation of the odd-even-balance strategy has exactly 3
\* odd and exactly 3 even reds.
C13_ThreeOddThreeEven ==
    algorithm = "odd_even_balance" =>
        \A i \in 1..Len(recommendations) :
            /\ Len(recommendations[i].red) = 6
            /\ RedsIn(recommendations[i], {x \in all_reds : x % 2 = 1}) = 3
            /\ RedsIn(recommendations[i], {x \in all_reds : x % 2 = 0}) = 3

\* Reached: the call has returned its recommendations.
C13_Witness ==
    /\ algorithm = "odd_even_balance"
    /\ epc = "returned"
    /\ Len(recommendations) = count
    /\ \E i \in 1..Len(recommendations) :
           {1, 33} \subseteq SeqToSet(recommendations[i].red)

\* What is left of a call of _frequency_weighted: 8 for every recommendation
\* still to append, and within one the numbers still to select.
Remaining ==
    IF epc = "analyze" THEN 8 * count + 8
    ELSE IF epc = "call" THEN 8 * (count - Len(recommendations)) + 7
    ELSE IF epc = "fill"
         THEN 8 * (count - Len(recommendations)) + 6 - Len(selected_reds)
    ELSE 0

\* A draw is possible that moves the call on: a weighted choice of reds and
\* of a blue, or, in the fill loop, a number not selected yet.
CanDraw ==
    /\ epc = "call" =>
          /\ random_choices(all_reds, [num \in all_reds |-> RedWeight(num)], 6)
                 # {}
          /\ WeightedBlues # {}
    /\ epc = "fill" =>
          /\ random_randint(1, 33, RedPool) \ SeqToSet(selected_reds) # {}
          /\ WeightedBlues # {}

\* C14: on empty red and blue tables the weighted strategy never raises and
\* terminates: a draw that moves the call on is always possible and every
\* step that changes anything reduces what is left of the call, which ends
\* with `count` recommendations of 6 distinct ascending reds in [1,33] and a
\* blue in [1,16].
C14_EmptyTablesStillRecommend ==
    /\ [](epc # "analyze" => red_freq = <<>> /\ blue_freq = <<>>)
    /\ [](epc # "raised")
    /\ [](CanDraw /\ Remaining >= 0)
    /\ [][Remaining' < Remaining]_vars
    /\ [](epc = "returned" =>
            /\ Remaining = 0
            /\ Len(recommendations) = count
            /\ \A i \in 1..Len(recommendations) :
                  /\ ValidRecommendation(recommendations[i])
                  /\ \A k \in 1..5 : recommendations[i].red[k]
                                        < recommendations[i].red[k + 1])

\* Reached: the call on empty tables has returned its recommendations.
C14_Witness ==
    /\ algorithm = "frequency_weighted"
    /\ red_freq = <<>> /\ blue_freq = <<>>
    /\ epc = "returned"
    /\ Len(recommendations) = count
    /\ count >= 1

\* C15: RecommendEngine.generate never raises on missing history: with an
\* empty red table or an empty blue table every strategy returns a list.
C15_NeverRaisesOnEmptyTables ==
    (red_freq = <<>> \/ blue_freq = <<>>) => epc # "raised"

\* C16: the reject-sampling strategies bound their sampling attempts: for
\* every sequence of outcomes of the random source a call of sum-optimized or
\* no-consecutive comes to an end.
C16_RejectSamplingTerminates ==
    (algorithm \in {"sum_optimized", "no_consecutive"} /\ epc = "call")
        ~> (epc \in {"returned", "raised"})

\* C20: parse_numbers is resilient per record: a record contributes its six
\* red values exactly when its red field decodes to exactly six integers and
\* its blue value exactly when its blue field decodes to one integer; the
\* other records are skipped, and the values of the records before and after
\* a skipped one stand in record order.
SixIntegers(item) ==
    Len(item.red) = 6 /\ \A i \in 1..6 : item.red[i] # <<>>

OneInteger(item) ==
    Len(item.blue) = 1 /\ item.blue[1] # <<>>

RedsBefore(k) ==
    6 * Cardinality({j \in 1..(k - 1) : SixIntegers(history[j])})

BluesBefore(k) ==
    Cardinality({j \in 1..(k - 1) : OneInteger(history[j])})

C20_ParseIsResilientPerRecord ==
    LET balls == parse_numbers(history)
        n     == Len(history)
    IN /\ Len(balls[1]) = RedsBefore(n + 1)
       /\ Len(balls[2]) = BluesBefore(n + 1)
       /\ \A k \in 1..n :
             /\ SixIntegers(history[k]) =>
                   \A i \in 1..6 :
                      balls[1][RedsBefore(k) + i] = history[k].red[i][1]
             /\ OneInteger(history[k]) =>
                   balls[2][BluesBefore(k) + 1] = history[k].blue[1][1]
       /\ epc # "analyze" =>
             <<red_freq, blue_freq>> = analyze_frequency(balls[1], balls[2])

\* A skipped record between two counted ones, after the worker has parsed.
C20_Witness ==
    /\ epc = "call"
    /\ Len(history) = 3
    /\ SixIntegers(history[1]) /\ OneInteger(history[1])
    /\ ~SixIntegers(history[2]) /\ ~OneInteger(history[2])
    /\ SixIntegers(history[3]) /\ OneInteger(history[3])
    /\ history[1] # history[3]
    /\ parse_numbers(history) =
          <<[i \in 1..12 |-> IF i <= 6 THEN history[1].red[i][1]
                                      ELSE history[3].red[i - 6][1]],
            <<history[1].blue[1][1], history[3].blue[1][1]>>>>

\* C21: analyze_frequency returns two fresh tables: the count of a number is
\* the number of its occurrences in the input list, values outside 1..33
\* (red) or 1..16 (blue) are discarded so that every key is in its domain,
\* and the input lists and the tables returned earlier stay as they were.
TimesIn(balls, num) ==
    Cardinality({i \in 1..Len(balls) : balls[i] = num})

CountsOccurrences(freq, balls, domain) ==
    /\ \A i, j \in 1..Len(freq) : freq[i][1] = freq[j][1] => i = j
    /\ \A i \in 1..Len(freq) :
          /\ freq[i][1] \in domain
          /\ freq[i][2] = TimesIn(balls, freq[i][1])
    /\ \A num \in domain :
          TimesIn(balls, num) > 0 =>
              \E i \in 1..Len(freq) : freq[i][1] = num

C21_FreshTablesCountOccurrences ==
    /\ [](epc # "analyze" =>
            /\ CountsOccurrences(red_freq, red_balls, all_reds)
            /\ CountsOccurrences(blue_freq, blue_balls, all_blues))
    /\ [][(epc = "analyze" /\ epc' = "call") =>
            /\ red_balls' = parse_numbers(history)[1]
            /\ blue_balls' = parse_numbers(history)[2]
            /\ returned_tables' = returned_tables]_vars

\* A second call whose input holds values outside the domains and whose
\* tables differ from the ones returned before.
C21_Witness ==
    /\ epc = "call"
    /\ returned_tables # <<>>
    /\ returned_tables[1][1] # <<>>
    /\ red_freq # <<>>
    /\ returned_tables[1] # <<red_freq, blue_freq>>
    /\ \E i \in 1..Len(red_balls) : red_balls[i] \notin all_reds
    /\ \E i \in 1..Len(blue_balls) : blue_balls[i] \notin all_blues
    /\ \E num \in all_reds : TimesIn(red_balls, num) > 1

(***************************************************************************)
MessageTypes == {"fetch_success", "fetch_error", "recommend_success",
                 "error", "progress_start", "progress_stop"}

Msg(msg_type, data) == [msg_type |-> msg_type, data |-> data]

maxsize == 0     \* queue.Queue(): no upper bound on the number of items

\* A faulty put_ready: that of queue.Queue(maxsize=1), whose put blocks on a
\* queue holding one item.  C7 must fail on it.
put_ready_bounded(q) == Len(q) < 1

\* Queue.put blocks only on a full queue, and a queue of maxsize <= 0 is
\* never full.
put_ready(q) == maxsize <= 0 \/ Len(q) < maxsize

\* A faulty put that drops the item when the queue already holds one.  C6
\* must fail on it.
put_lossy(q, item) == IF Len(q) >= 1 THEN q ELSE Append(q, item)

put(q, item) == Append(q, item)

\* A faulty get_nowait that takes the newest item, as queue.LifoQueue does.
\* C5 must fail on it.
get_nowait_lifo(q) == <<q[Len(q)], SubSeq(q, 1, Len(q) - 1)>>

\* Queue.get_nowait on a non-empty queue: <<the item, the rest>>.
get_nowait(q) == <<Head(q), Tail(q)>>

\* MessageQueue.send
send(msg_type, data) ==
    /\ put_ready(queue)
    /\ queue' = put(queue, Msg(msg_type, data))
    /\ sent_log' = Append(sent_log, Msg(msg_type, data))

\* MessageQueue.receive: (None, None), written <<>>, on queue.Empty.
receive ==
    IF queue = <<>>
    THEN /\ last_received' = <<>>
         /\ UNCHANGED <<queue, recv_log>>
    ELSE /\ last_received' = <<get_nowait(queue)[1]>>
         /\ queue' = get_nowait(queue)[2]
         /\ recv_log' = Append(recv_log, get_nowait(queue)[1])

\* MessageQueue.clear: get_nowait until the queue is empty.
RECURSIVE Drain(_)
Drain(q) == IF q = <<>> THEN <<>>
            ELSE <<get_nowait(q)[1]>> \o Drain(get_nowait(q)[2])

clear ==
    /\ cleared_log' = cleared_log \o Drain(queue)
    /\ queue' = <<>>

(***************************************************************************)
(* SpecQueue: the queue alone, with a consumer and two producers that each *)
(* send up to MaxSends numbered messages, in any interleaving.             *)
(***************************************************************************)
Producers == {"controller", "worker"}

SentBy(p) == Cardinality({i \in 1..Len(sent_log) : sent_log[i].data[1] = p})

queue_frame == UNCHANGED <<engine_vars, gui_vars>>

producer_send(p) ==
    /\ SentBy(p) < MaxSends
    /\ \E msg_type \in (IF p = "controller" THEN {"progress_start"}
                        ELSE {"fetch_success", "error"}) :
           send(msg_type, <<p, SentBy(p) + 1>>)
    /\ UNCHANGED <<last_received, recv_log, cleared_log>>
    /\ queue_frame

consumer_receive ==
    /\ receive
    /\ UNCHANGED <<sent_log, cleared_log>>
    /\ queue_frame

consumer_clear ==
    /\ queue # <<>>
    /\ clear
    /\ UNCHANGED <<last_received, sent_log, recv_log>>
    /\ queue_frame

InitQueue == EngineIdle /\ QueueIdle /\ GuiIdle
NextQueue ==
    \/ \E p \in Producers : producer_send(p)
    \/ consumer_receive
    \/ consumer_clear
SpecQueue == InitQueue /\ [][NextQueue]_vars

(***************************************************************************)
(* Claims about the message queue.                                         *)
(***************************************************************************)
\* C5: whatever the interleaving of the producers' sends, the messages of one
\* producer are dequeued in the order that producer sent them.
C5_PerProducerOrder ==
    \A i, j \in 1..Len(recv_log) :
        (i < j /\ recv_log[i].data[1] = recv_log[j].data[1])
            => recv_log[i].data[2] < recv_log[j].data[2]

\* Reached: both messages of one producer were received with a message of the
\* other producer between them.
C5_Witness ==
    \E i, j, k \in 1..Len(recv_log) :
        /\ i < k /\ k < j
        /\ recv_log[i].data[1] = recv_log[j].data[1]
        /\ recv_log[k].data[1] # recv_log[i].data[1]

Occurrences(s, m) == Cardinality({i \in 1..Len(s) : s[i] = m})

\* C6: no message is lost or duplicated: every message sent is, exactly once,
\* either still queued, returned by a receive or removed by a clear, and
\* nothing else is ever in the queue or handed out.
C6_NoLossNoDuplication ==
    \A m \in SeqToSet(sent_log) \cup SeqToSet(queue)
             \cup SeqToSet(recv_log) \cup SeqToSet(cleared_log) :
        Occurrences(queue, m) + Occurrences(recv_log, m)
            + Occurrences(cleared_log, m) = Occurrences(sent_log, m)

\* Reached: everything was sent, some messages were received, some cleared,
\* and the queue is empty again.
C6_Witness ==
    /\ Len(sent_log) = 2 * MaxSends
    /\ queue = <<>>
    /\ recv_log # <<>>
    /\ cleared_log # <<>>

\* C7: the queue never blocks: a producer with a message to send can send it
\* whatever the queue's length, a receive is always possible, and on an empty
\* queue it returns (None, None) and changes nothing.
C7_NeverBlocks ==
    /\ [](\A p \in Producers : SentBy(p) < MaxSends => ENABLED producer_send(p))
    /\ [](ENABLED consumer_receive)
    /\ [][(queue = <<>> /\ consumer_receive)
            => (last_received' = <<>> /\ UNCHANGED <<queue, recv_log>>)]_vars

\* Reached: a receive on the empty queue returned (None, None) after messages
\* had gone through, and a send was made onto a queue of three messages.
C7_Witness ==
    /\ Len(queue) >= MaxSends + 1
    /\ recv_log # <<>>
    /\ last_received = <<>>

(***************************************************************************)
(* SSQGUI: the window (one control loop) and its worker threads.           *)
(*                                                                         *)
(* The cache file is named by its content: "none" (no file), "corrupt" (a  *)
(* file json.load rejects, as is a file that is being written), or a       *)
(* record list, "valid" or "sparse".  A thread is [kind, pc, algorithm,    *)
(* data, outcome, message]; its terminal message carries the task number   *)
(* in place of the text.                                                   *)
(***************************************************************************)
\* "valid": three well-formed draws; "sparse": one draw whose numbers are
\* mostly out of range, which leaves two red numbers and no blue number.
CacheData(name) == IF name = "valid" THEN <<RecA, RecB, RecC>> ELSE <<RecRange>>

\* SSQCore.load_cached_data: None, written <<>>, without a readable file.
load_cached_data ==
    IF cache \in {"none", "corrupt"} THEN <<>> ELSE CacheData(cache)

\* Whether RecommendEngine.generate raises on these tables.
generate_raises(algo, reds, blues) ==
    \/ algo = "pure_frequency" /\ blues = <<>>
    \/ algo = "hot_cold_balance" /\ (Len(reds) < 3 \/ blues = <<>>)

Thread(kind, pc, algo) ==
    [kind |-> kind, pc |-> pc, algorithm |-> algo, data |-> "none",
     outcome |-> "none", message |-> "none"]

InFlight == {t \in 1..Len(threads) : threads[t].pc # "done"}

\* Only show_frequency_chart draws on the frequency tab.
gui_frame == UNCHANGED <<engine_vars, chart>>

\* A faulty _set_ui_busy that moves the progress bar and leaves the buttons
\* alone.  C2 must fail on it.
_set_ui_busy_progress_only(busy) ==
    /\ progress_on' = busy
    /\ UNCHANGED ui_busy

\* SSQGUI._set_ui_busy
_set_ui_busy(busy) ==
    /\ ui_busy' = busy
    /\ progress_on' = busy

\* SSQGUI.start_fetch_data
start_fetch_data ==
    /\ ~closed
    /\ Len(threads) < MaxTasks
    /\ IF ui_busy
       THEN UNCHANGED <<queue_vars, gui_vars>>     \* the click is ignored
       ELSE /\ _set_ui_busy(TRUE)
            /\ cleared_log' = cleared_log \o Drain(queue)
            /\ queue' = put(<<>>, Msg("progress_start", 0))
            /\ sent_log' = Append(sent_log, Msg("progress_start", 0))
            /\ threads' = Append(threads, Thread("fetch", "fetch", "none"))
            /\ UNCHANGED <<last_received, recv_log, closed, cache,
                           status_var, result_text, consumed>>
    /\ gui_frame

\* SSQGUI.start_generate_recommend
start_generate_recommend ==
    /\ IF load_cached_data = <<>>
       THEN UNCHANGED <<queue_vars, gui_vars>>     \* warning box, no task
       ELSE \E selected_algorithm \in Algorithms :
               /\ _set_ui_busy(TRUE)
               /\ send("progress_start", 0)
               /\ threads' = Append(threads,
                      Thread("generate", "load", selected_algorithm))
               /\ UNCHANGED <<last_received, recv_log, cleared_log, closed,
                              cache, status_var, result_text, consumed>>
    /\ gui_frame

\* The "generate" button: Tk runs the command of a button only while the
\* button is enabled.
btn_recommend_click ==
    /\ ~closed
    /\ ~ui_busy
    /\ Len(threads) < MaxTasks
    /\ start_generate_recommend

\* SSQGUI.clear_cache
clear_cache ==
    /\ ~closed
    /\ cache # "none"
    /\ cache' = "none"
    /\ status_var' = "cache_cleared"
    /\ result_text' = 0
    /\ UNCHANGED <<queue_vars, ui_busy, progress_on, closed, threads, consumed>>
    /\ gui_frame

SetThread(t, pc, data, outcome, message) ==
    threads' = [threads EXCEPT ![t] =
                   [@ EXCEPT !.pc = pc, !.data = data, !.outcome = outcome,
                             !.message = message]]

worker_frame == UNCHANGED <<queue_vars, ui_busy, progress_on, closed,
                            status_var, result_text, consumed>>

\* _fetch_data_worker, up to the answer of SSQCore.fetch_history_data: a
\* record list, None, or an exception escaping into the worker's handler.
fetch_worker_fetch(t) ==
    /\ threads[t].kind = "fetch" /\ threads[t].pc = "fetch"
    /\ \E answer \in {"valid", "sparse", "none", "exception"} :
          IF answer \in {"valid", "sparse"}
          THEN SetThread(t, "save", answer, "none", "none")
          ELSE SetThread(t, "send", "none", "error", "fetch_error")
    /\ UNCHANGED cache
    /\ worker_frame
    /\ gui_frame

\* _fetch_data_worker: SSQCore.save_data_to_cache up to its open(..., 'w'),
\* which truncates the file.  Building the cache dict or opening the file may
\* raise; save_data_to_cache then answers False and the file is as it was.
fetch_worker_open(t) ==
    /\ threads[t].kind = "fetch" /\ threads[t].pc = "save"
    /\ \E opened \in BOOLEAN :
          IF opened
          THEN /\ cache' = "corrupt"
               /\ SetThread(t, "write", threads[t].data, "none", "none")
          ELSE /\ UNCHANGED cache
               /\ SetThread(t, "send", threads[t].data, "cache_error",
                            "fetch_success")
    /\ worker_frame
    /\ gui_frame

\* _fetch_data_worker: the json.dump and the close of save_data_to_cache,
\* whose answer the worker does not read.  A failed write leaves a broken
\* file; a file removed meanwhile stays removed.
fetch_worker_save(t) ==
    /\ threads[t].kind = "fetch" /\ threads[t].pc = "write"
    /\ \E written \in BOOLEAN :
          /\ cache' = (IF cache = "none" THEN "none"
                       ELSE IF written THEN threads[t].data ELSE "corrupt")
          /\ SetThread(t, "send", threads[t].data,
                       IF written THEN "ok" ELSE "cache_error",
                       "fetch_success")
    /\ worker_frame
    /\ gui_frame

\* The tables the worker builds from each readable cache file:
\* analyze_frequency(*parse_numbers(data)).
CacheTables ==
    [name \in {"valid", "sparse"} |->
        LET balls == parse_numbers(CacheData(name))
        IN analyze_frequency(balls[1], balls[2])]

\* Whether the body of _generate_recommend_worker raises: parse_numbers(None)
\* does, and the engine may.
worker_raises(algo) ==
    \/ load_cached_data = <<>>
    \/ generate_raises(algo, CacheTables[cache][1], CacheTables[cache][2])

\* A faulty generate worker that writes the result box itself instead of
\* leaving it to process_messages.  C19 must fail on it.
generate_worker_run_writes_result(t) ==
    /\ threads[t].kind = "generate" /\ threads[t].pc = "load"
    /\ IF worker_raises(threads[t].algorithm)
       THEN /\ SetThread(t, "send", cache, "error", "error")
            /\ UNCHANGED result_text
       ELSE /\ SetThread(t, "send", cache, "ok", "recommend_success")
            /\ result_text' = t
    /\ UNCHANGED <<cache, queue_vars, ui_busy, progress_on, closed,
                   status_var, consumed>>
    /\ gui_frame

\* _generate_recommend_worker, up to the answer of RecommendEngine.generate.
generate_worker_run(t) ==
    /\ threads[t].kind = "generate" /\ threads[t].pc = "load"
    /\ IF worker_raises(threads[t].algorithm)
       THEN SetThread(t, "send", cache, "error", "error")
       ELSE SetThread(t, "send", cache, "ok", "recommend_success")
    /\ UNCHANGED cache
    /\ worker_frame
    /\ gui_frame

\* A faulty worker that sends its terminal message twice.  C3 must fail on it.
worker_send_twice(t) ==
    /\ threads[t].pc = "send"
    /\ queue' = put(put(queue, Msg(threads[t].message, t)),
                    Msg(threads[t].message, t))
    /\ sent_log' = Append(Append(sent_log, Msg(threads[t].message, t)),
                          Msg(threads[t].message, t))
    /\ SetThread(t, "done", threads[t].data, threads[t].outcome,
                 threads[t].message)
    /\ UNCHANGED <<last_received, recv_log, cleared_log, ui_busy, progress_on,
                   closed, cache, status_var, result_text, consumed>>
    /\ gui_frame

\* The worker's message_queue.send, its last statement.
worker_send(t) ==
    /\ threads[t].pc = "send"
    /\ send(threads[t].message, t)
    /\ SetThread(t, "done", threads[t].data, threads[t].outcome,
                 threads[t].message)
    /\ UNCHANGED <<last_received, recv_log, cleared_log, ui_busy, progress_on,
                   closed, cache, status_var, result_text, consumed>>
    /\ gui_frame

TerminalTypes == {"fetch_success", "fetch_error", "recommend_success", "error"}

\* A faulty handle_message whose two error branches show the error and do not
\* call _set_ui_busy(False).  C4 must fail on it.
handle_message_error_keeps_busy(msg) ==
    IF msg.msg_type = "fetch_success"
    THEN /\ status_var' = "fetch_done"
         /\ _set_ui_busy(FALSE)
         /\ UNCHANGED result_text
    ELSE IF msg.msg_type = "fetch_error"
    THEN /\ status_var' = "fetch_failed"
         /\ UNCHANGED <<ui_busy, progress_on, result_text>>
    ELSE IF msg.msg_type = "recommend_success"
    THEN /\ result_text' = msg.data
         /\ status_var' = "recommend_done"
         /\ _set_ui_busy(FALSE)
    ELSE IF msg.msg_type = "error"
    THEN /\ status_var' = "error"
         /\ UNCHANGED <<ui_busy, progress_on, result_text>>
    ELSE IF msg.msg_type = "progress_start"
    THEN /\ progress_on' = TRUE
         /\ UNCHANGED <<ui_busy, status_var, result_text>>
    ELSE /\ progress_on' = FALSE
         /\ UNCHANGED <<ui_busy, status_var, result_text>>

\* A faulty handle_message that releases the slot on PROGRESS_START already.
\* C23 must fail on it.
handle_message_start_releases_slot(msg) ==
    IF msg.msg_type = "fetch_success"
    THEN /\ status_var' = "fetch_done"
         /\ _set_ui_busy(FALSE)
         /\ UNCHANGED result_text
    ELSE IF msg.msg_type = "fetch_error"
    THEN /\ status_var' = "fetch_failed"
         /\ _set_ui_busy(FALSE)
         /\ UNCHANGED result_text
    ELSE IF msg.msg_type = "recommend_success"
    THEN /\ result_text' = msg.data
         /\ status_var' = "recommend_done"
         /\ _set_ui_busy(FALSE)
    ELSE IF msg.msg_type = "error"
    THEN /\ status_var' = "error"
         /\ _set_ui_busy(FALSE)
         /\ UNCHANGED result_text
    ELSE /\ _set_ui_busy(FALSE)
         /\ UNCHANGED <<status_var, result_text>>

\* What process_messages does with the message it received.
handle_message(msg) ==
    IF msg.msg_type = "fetch_success"
    THEN /\ status_var' = "fetch_done"
         /\ _set_ui_busy(FALSE)
         /\ UNCHANGED result_text
    ELSE IF msg.msg_type = "fetch_error"
    THEN /\ status_var' = "fetch_failed"
         /\ _set_ui_busy(FALSE)
         /\ UNCHANGED result_text
    ELSE IF msg.msg_type = "recommend_success"
    THEN /\ result_text' = msg.data
         /\ status_var' = "recommend_done"
         /\ _set_ui_busy(FALSE)
    ELSE IF msg.msg_type = "error"
    THEN /\ status_var' = "error"
         /\ _set_ui_busy(FALSE)
         /\ UNCHANGED result_text
    ELSE IF msg.msg_type = "progress_start"
    THEN /\ progress_on' = TRUE
         /\ UNCHANGED <<ui_busy, status_var, result_text>>
    ELSE /\ progress_on' = FALSE
         /\ UNCHANGED <<ui_busy, status_var, result_text>>

\* A faulty poll loop whose timer outlives root.destroy().  C22 must fail on
\* it.
process_messages_after_destroy ==
    /\ receive
    /\ IF queue = <<>>
       THEN UNCHANGED <<ui_busy, progress_on, status_var, result_text, consumed>>
       ELSE /\ handle_message(Head(queue))
            /\ consumed' = IF Head(queue).msg_type \in TerminalTypes
                           THEN Append(consumed, Head(queue))
                           ELSE consumed
    /\ UNCHANGED <<sent_log, cleared_log, closed, cache, threads>>
    /\ gui_frame

\* SSQGUI.process_messages: one tick of the poll loop.
process_messages ==
    /\ ~closed
    /\ receive
    /\ IF queue = <<>>
       THEN UNCHANGED <<ui_busy, progress_on, status_var, result_text, consumed>>
       ELSE /\ handle_message(Head(queue))
            /\ consumed' = IF Head(queue).msg_type \in TerminalTypes
                           THEN Append(consumed, Head(queue))
                           ELSE consumed
    /\ UNCHANGED <<sent_log, cleared_log, closed, cache, threads>>
    /\ gui_frame

\* SSQGUI.on_closing
on_closing ==
    /\ ~closed
    /\ clear
    /\ progress_on' = FALSE
    /\ ui_busy' = FALSE
    /\ closed' = TRUE
    /\ UNCHANGED <<last_received, sent_log, recv_log, cache, threads,
                   status_var, result_text, consumed>>
    /\ gui_frame

\* SSQGUI.__init__: the cache file is whatever an earlier run left.
Init ==
    /\ EngineIdle
    /\ QueueIdle
    /\ ui_busy = FALSE
    /\ progress_on = FALSE
    /\ closed = FALSE
    /\ cache \in {"none", "valid", "sparse"}
    /\ threads = <<>>
    /\ status_var = "init"
    /\ result_text = 0
    /\ consumed = <<>>
    /\ chart = "none"

Next ==
    \/ start_fetch_data
    \/ btn_recommend_click
    \/ clear_cache
    \/ process_messages
    \/ on_closing
    \/ \E t \in 1..Len(threads) :
          \/ fetch_worker_fetch(t)
          \/ fetch_worker_open(t)
          \/ fetch_worker_save(t)
          \/ generate_worker_run(t)
          \/ worker_send(t)

Spec == Init /\ [][Next]_vars

\* SSQGUI.show_frequency_chart: the button of the frequency tab, which
\* _set_ui_busy leaves enabled.  A warning box without readable cache data,
\* else the chart of the tables of the cache file.
show_frequency_chart ==
    /\ ~closed
    /\ chart' = (IF load_cached_data = <<>> THEN "warning" ELSE cache)
    /\ UNCHANGED <<queue_vars, ui_busy, progress_on, closed, cache, threads,
                   status_var, result_text, consumed>>
    /\ UNCHANGED engine_vars

\* SpecCacheFile: the window with its frequency tab in use.
NextCacheFile == Next \/ show_frequency_chart
SpecCacheFile == Init /\ [][NextCacheFile]_vars

\* SpecLive: the poll loop reschedules itself after every tick
\* (root.after(100, ...)) and a started thread keeps running, so a tick that
\* has a message to take and a worker step that is due do happen.
worker_step(t) ==
    /\ t \in 1..Len(threads)
    /\ \/ fetch_worker_fetch(t)
       \/ fetch_worker_open(t)
       \/ fetch_worker_save(t)
       \/ generate_worker_run(t)
       \/ worker_send(t)

SpecLive ==
    /\ Spec
    /\ WF_vars(process_messages)
    /\ \A t \in 1..MaxTasks : WF_vars(worker_step(t))

(***************************************************************************)
(* Claims about the dispatch / poll protocol.                              *)
(***************************************************************************)
\* The terminal messages of task t in a sequence of messages.
Terminals(s, t) ==
    Cardinality({i \in 1..Len(s) :
                    s[i].msg_type \in TerminalTypes /\ s[i].data = t})

\* Task t was dispatched and its terminal message is not consumed yet.
Pending(t) == t \in 1..Len(threads) /\ Terminals(consumed, t) = 0

C3_ConsumedExactlyOnce ==
    \A t \in 1..Len(threads) :
        threads[t].pc = "done" =>
            /\ Terminals(sent_log, t) = 1
            /\ Terminals(queue, t) + Terminals(consumed, t) = 1

KindTypes(kind) == IF kind = "fetch" THEN {"fetch_success", "fetch_error"}
                   ELSE {"recommend_success", "error"}

\* C3, amended: a unit posts no terminal message before its end and exactly
\* one, of its task's kind, at its end; the message is consumed at most once
\* and is dropped only by the clear of on_closing; unless the window is
\* closed, it is consumed.
C3_OncePostedOnceConsumedUnlessClosed ==
    /\ [](\A t \in 1..Len(threads) :
            /\ Terminals(sent_log, t) = (IF threads[t].pc = "done" THEN 1 ELSE 0)
            /\ \A i \in 1..Len(sent_log) :
                   (sent_log[i].data = t /\ sent_log[i].msg_type \in TerminalTypes)
                       => sent_log[i].msg_type \in KindTypes(threads[t].kind)
            /\ Terminals(consumed, t) <= 1
            /\ Terminals(queue, t) + Terminals(consumed, t)
                   + Terminals(cleared_log, t) = Terminals(sent_log, t)
            /\ Terminals(cleared_log, t) > 0 => closed)
    /\ \A t \in 1..MaxTasks :
           (t \in 1..Len(threads) /\ threads[t].pc = "done")
               ~> (closed \/ Terminals(consumed, t) = 1)

\* Reached: both tasks, a fetch and a generate, had their terminal messages
\* consumed in an open window.
C3_Witness ==
    /\ ~closed
    /\ Len(threads) = MaxTasks
    /\ \A t \in 1..Len(threads) : Terminals(consumed, t) = 1
    /\ \E t, u \in 1..Len(threads) :
           threads[t].kind = "fetch" /\ threads[u].kind = "generate"

ErrorTypes == {"fetch_error", "error"}

\* C4: a unit that took an error path has posted a terminal error message by
\* its end; the tick that consumes an error message leaves the slot Idle; and
\* an error is always followed by an Idle slot.
C4_ErrorsReleaseTheSlot ==
    /\ [](\A t \in 1..Len(threads) :
            (threads[t].pc = "done" /\ threads[t].outcome = "error")
                => \E i \in 1..Len(sent_log) :
                       sent_log[i].data = t /\ sent_log[i].msg_type \in ErrorTypes)
    /\ [][(Len(consumed') > Len(consumed)
             /\ consumed'[Len(consumed')].msg_type \in ErrorTypes)
            => ~ui_busy']_vars
    /\ \A t \in 1..MaxTasks :
           (t \in 1..Len(threads) /\ threads[t].outcome = "error") ~> ~ui_busy

\* Reached: the generate worker found the cache gone, its error message was
\* consumed and the slot is Idle in an open window.
C4_Witness ==
    /\ ~closed
    /\ ~ui_busy
    /\ \E t \in 1..Len(threads) :
          /\ threads[t].kind = "generate"
          /\ threads[t].data = "none"
          /\ threads[t].outcome = "error"
          /\ \E i \in 1..Len(consumed) :
                 consumed[i].data = t /\ consumed[i].msg_type = "error"

\* C17: a failed cache write in a fetch task reaches the Controller as a
\* terminal error message, not as a success message.
C17_CacheWriteFailureIsAnError ==
    \A t \in 1..Len(threads) :
        (threads[t].pc = "done" /\ threads[t].outcome = "cache_error") =>
            \A i \in 1..Len(sent_log) :
                (sent_log[i].data = t /\ sent_log[i].msg_type \in TerminalTypes)
                    => sent_log[i].msg_type \in ErrorTypes

\* The status lines that show the outcome of a task.
TaskStatuses == {"fetch_done", "fetch_failed", "recommend_done", "error"}

\* C19: a task's output reaches the control loop's state only in the tick
\* that dequeues the task's terminal message: a worker step writes none of
\* it, the result box takes a task's result, and the status line a task's
\* outcome, only in a step that consumes the terminal message at the head of
\* the queue, and the result shown is that of a consumed task.
C19_OutputAppliedOnlyAtTheTick ==
    /\ [][(\E t \in 1..Len(threads) : threads'[t] # threads[t])
            => UNCHANGED <<status_var, result_text, ui_busy, progress_on,
                           consumed>>]_vars
    /\ [][(result_text' # result_text /\ result_text' # 0)
            => /\ queue # <<>>
               /\ Head(queue) = Msg("recommend_success", result_text')
               /\ queue' = Tail(queue)
               /\ consumed' = Append(consumed, Head(queue))]_vars
    /\ [][(status_var' # status_var /\ status_var' \in TaskStatuses)
            => /\ queue # <<>>
               /\ Head(queue).msg_type \in TerminalTypes
               /\ queue' = Tail(queue)
               /\ consumed' = Append(consumed, Head(queue))]_vars
    /\ [](result_text # 0 =>
            /\ Terminals(consumed, result_text) = 1
            /\ threads[result_text].pc = "done")

\* Reached: the second task, a generate task, has its result in the result box
\* after its terminal message was consumed.
C19_Witness ==
    /\ ~closed
    /\ Len(threads) = MaxTasks
    /\ result_text = Len(threads)
    /\ status_var = "recommend_done"
    /\ threads[Len(threads)].kind = "generate"

\* The fetch worker is between the open and the close of the cache file.
Writing == \E t \in 1..Len(threads) : threads[t].pc = "write"

\* C18: no structure but the message queue is accessed by two threads at a
\* time: while the fetch worker is writing the cache file the control loop
\* neither reads it (for the frequency chart) nor removes it (clear_cache).
C18_CacheFileNotSharedWhileWritten ==
    [][Writing => (chart' = chart /\ (cache' = "none" => cache = "none"))]_vars

\* C22: on_closing clears the queue and stops the poll loop without touching
\* the background unit: the unit goes on and may post, and nothing posted
\* after the shutdown is received or changes the control loop's state.
ControlLoopState ==
    <<recv_log, last_received, consumed, ui_busy, progress_on, status_var,
      result_text, chart>>

C22_NothingConsumedAfterShutdown ==
    /\ [][(~closed /\ closed') => (queue' = <<>> /\ threads' = threads)]_vars
    /\ [][closed => (closed' /\ ControlLoopState' = ControlLoopState)]_vars

\* A unit that was still fetching when the window closed has since ended and
\* posted its terminal message, which stays in the queue.
C22_Witness ==
    /\ closed
    /\ \E t \in 1..Len(threads) :
          /\ threads[t].pc = "done"
          /\ Terminals(queue, t) = 1
          /\ Terminals(consumed, t) = 0
          /\ Terminals(cleared_log, t) = 0

\* C23: while the window is open and the slot is Idle the queue is empty:
\* a dispatch puts PROGRESS_START into an empty queue before its unit runs,
\* a tick receives at most one message, and the slot is released only by the
\* tick that consumes a terminal message; so the clear of a dispatch discards
\* nothing.
C23_IdleSlotMeansEmptyQueue ==
    /\ []((~closed /\ ~ui_busy) => queue = <<>>)
    /\ [][Len(recv_log') <= Len(recv_log) + 1]_vars
    /\ [][(ui_busy /\ ~ui_busy' /\ ~closed')
            => /\ Len(consumed') = Len(consumed) + 1
               /\ queue' = <<>>]_vars
    /\ [][Len(threads') > Len(threads)
            => /\ cleared_log' = cleared_log
               /\ queue' = <<Msg("progress_start", 0)>>
               /\ threads'[Len(threads')].pc \in {"fetch", "load"}]_vars

\* A fetch dispatched, and so a clear performed, after an earlier task ended.
C23_Witness ==
    /\ ~closed
    /\ ui_busy
    /\ Len(threads) = 2
    /\ threads[2].kind = "fetch"
    /\ Terminals(consumed, 1) = 1
    /\ Terminals(sent_log, 2) = 1
    /\ cleared_log = <<>>

====
